---- MODULE Spec2Model ----
(***************************************************************************)
(* troubadour: the hardware-qualification wizard.                          *)
(*                                                                         *)
(* The terminal (Bubble Tea) program of src/main.go, lines 1520-3077, as a *)
(* state machine: the model value m, the commands in flight, the clock and *)
(* the process; model.Update is the operator Update, computed case by case *)
(* as the Go code computes it.                                             *)
(***************************************************************************)
EXTENDS Integers, Sequences, FiniteSets, Bags, TLC

(***************************************************************************)
(* Bounds of the model.                                                    *)
(***************************************************************************)
\* instants older than MaxElapsed clock units are all kept as "MaxElapsed ago"
MaxElapsed == 14
\* the operator types at most MaxTyped characters into the text input
MaxTyped == 1
\* at most MaxPending commands are in flight at once
MaxPending == 2
\* the serial numbers compared by the verifier alone have at most MaxSerialLen
\* characters
MaxSerialLen == 2
\* the clock's horizon in the variants: part_000 ends its display test at
\* 8 s, part_001 shows its final pattern from 3 s on
MaxElapsed_part000 == 17
MaxElapsed_part001 == 6
\* createLogFilesCmd is issued at most MaxLogCmds times in one run
MaxLogCmds == 2
\* most goroutines of the graphical program alive at once
MaxGoroutines == 2
\* deepest nesting of captured window contents
MaxContentDepth == 2
\* longest text typed into the serial entry of the graphical program
MaxEntryLen == 1

(***************************************************************************)
(* Program constants.                                                      *)
(***************************************************************************)
\* clock units in one time.Second: the clock is read in half seconds
UnitsPerSecond == 2
\* time.Now(): instants are kept relative to the present one, which is 0;
\* an instant k units in the past is -k, a timer due in k units is k
TimeNow == 0

stateInit == 0
stateShowInfo == 1
stateVideoTest == 2
stateAskVideoOk == 3
stateAskSerial == 4
stateCheckSerial == 5
stateSerialSuccess == 6
stateSerialError == 7
stateCreateLogs == 8
stateDone == 9

\* ti.CharLimit
CharLimit == 30

(***************************************************************************)
(* Inputs.  A string is a sequence of one-character strings; "" is << >>.  *)
(***************************************************************************)
\* the one-character keys the operator presses
Runes == {"q", "n", "r", "e"}
\* the keys that are not characters
SpecialKeys == {"enter", "ctrl+c"}
Keys == Runes \cup SpecialKeys

\* the values of time.Now().Format("20060102_150405") a log can be written at
Timestamps == {"20260101_000000", "20260101_000001"}

\* terminal sizes reported by tea.WindowSizeMsg
Sizes == {[Width |-> 100, Height |-> 30]}

\* what collectSystemInfoCmd can return on success: the inventory with the
\* serial number parsed from dmidecode's output, and that raw output
ProbeOutcomes ==
    { [sysInfo |-> [Inventory |-> "hw", SerialNumber |-> << >>], dmidecodeRaw |-> "raw0"],
      [sysInfo |-> [Inventory |-> "hw", SerialNumber |-> <<"n">>], dmidecodeRaw |-> "raw1"] }

VARIABLES
    pc,          \* "main" before main() has run, then "running", then "exited"
                 \* or, when the machine went down under it, "killed"
    exitCode,    \* the process exit code, -1 while it has not exited
    isRoot,      \* os.Geteuid() == 0
    m,           \* the Bubble Tea model value
    pending,     \* the bag of commands in flight (goroutines yet to deliver)
    lastMsg,     \* the message the last step handed to Update (NoMsg if none)
    lastCmd,     \* the commands the last Update returned
    logCmds,     \* how many times createLogFilesCmd has been issued
    logPathSets, \* how many times m.logFilePath has been assigned
    logFiles,    \* the log files written, each with its name and content
    typed,       \* how many characters the operator has typed into the text input
    enteredSerial, \* the verifier alone: the serial number entered,
    systemSerial,  \*   the system's serial number,
    verdict,       \*   and the message checkSerialNumberCmd returned (NoMsg before)
    gui            \* the graphical (Fyne) program: its globals, window and goroutines

tuiVars == <<pc, exitCode, isRoot, m, pending, lastMsg, lastCmd,
            logCmds, logPathSets, logFiles, typed>>

verifierVars == <<enteredSerial, systemSerial, verdict>>

\* what the terminal program's steps leave alone
guiVars == <<gui>>

nonTuiVars == <<verifierVars, guiVars>>

vars == <<tuiVars, verifierVars, guiVars>>

(***************************************************************************)
(* Messages and commands.                                                  *)
(***************************************************************************)
NoMsg == [type |-> "none"]
KeyMsg(k) == [type |-> "KeyMsg", key |-> k]
WindowSizeMsg(s) == [type |-> "WindowSizeMsg", Width |-> s.Width, Height |-> s.Height]

QuitCmd == [cmd |-> "tea.Quit"]
CheckRootCmdRef == [cmd |-> "checkRootCmd"]
CollectSystemInfoCmdRef == [cmd |-> "collectSystemInfoCmd"]
StartVideoTestCmdRef == [cmd |-> "startVideoTestCmd"]
RebootCmd == [cmd |-> "reboot"]
PoweroffCmd == [cmd |-> "poweroff"]
\* tea.Tick(time.Second, ...): a timer set at t delivers its message from
\* t + one second on
TickCmd(t) == [cmd |-> "tea.Tick", due |-> t + UnitsPerSecond]

Ret(mm, c) == [m |-> mm, cmd |-> c]

(***************************************************************************)
(* Pure functions of the program.                                          *)
(***************************************************************************)
checkRootCmd(root) ==
    IF ~root THEN [type |-> "errMsg", error |-> "not root"] ELSE [type |-> "nil"]

\* strings.ToLower on the model's alphabet
Fold(str) == [i \in DOMAIN str |-> IF str[i] = "A" THEN "a" ELSE str[i]]

\* mutant of checkSerialNumberCmd: the comparison ignores case
checkSerialNumberCmd_FoldCase(entered, system) ==
    IF Fold(entered) = Fold(system)
    THEN [type |-> "serialMatchedMsg"]
    ELSE [type |-> "serialMismatchMsg", entered |-> entered, system |-> system]

\* mutant of checkSerialNumberCmd: every submission is accepted
checkSerialNumberCmd_AlwaysMatch(entered, system) == [type |-> "serialMatchedMsg"]

checkSerialNumberCmd(entered, system) ==
    IF entered = system
    THEN [type |-> "serialMatchedMsg"]
    ELSE [type |-> "serialMismatchMsg", entered |-> entered, system |-> system]

\* the log file's name, written at timestamp ts, and its content
LogFileName(info, ts) == <<"./troubadour_logs", info.SerialNumber, ts>>

\* mutant of LogRecord: the display-test outcome is written negated
LogRecord_Negated(info, dmidecodeRaw, testPassed, serialMatched) ==
    [SerialNumber |-> info.SerialNumber,
     Inventory |-> info.Inventory,
     VideoTestPassed |-> ~testPassed,
     SerialNumberCheck |-> serialMatched,
     EnteredSerialNumber |-> info.SerialNumber,
     SystemSerialNumber |-> info.SerialNumber,
     RawDmidecode |-> dmidecodeRaw]

LogRecord(info, dmidecodeRaw, testPassed, serialMatched) ==
    [SerialNumber |-> info.SerialNumber,
     Inventory |-> info.Inventory,
     VideoTestPassed |-> testPassed,
     SerialNumberCheck |-> serialMatched,
     EnteredSerialNumber |-> info.SerialNumber,
     SystemSerialNumber |-> info.SerialNumber,
     RawDmidecode |-> dmidecodeRaw]

CreateLogFilesCmd(info, dmidecodeRaw, testPassed, serialMatched) ==
    [cmd |-> "createLogFilesCmd", info |-> info, dmidecodeRaw |-> dmidecodeRaw,
     testPassed |-> testPassed, serialMatched |-> serialMatched]

CheckSerialNumberCmdRef(entered, system) ==
    [cmd |-> "checkSerialNumberCmd", entered |-> entered, system |-> system]

\* textinput.Model.Update: a one-character key is appended while the value
\* is shorter than CharLimit; every other message leaves the value alone
textInputUpdate(value, msg) ==
    IF msg.type = "KeyMsg" /\ msg.key \notin SpecialKeys /\ Len(value) < CharLimit
    THEN Append(value, msg.key)
    ELSE value

initialModel ==
    [state |-> stateInit,
     sysInfo |-> [Inventory |-> "", SerialNumber |-> << >>],
     width |-> 0,
     height |-> 0,
     textInput |-> << >>,
     viewport |-> [Width |-> 80, Height |-> 20],
     err |-> "nil",
     userSerial |-> << >>,
     dmidecodeRaw |-> "",
     logFilePath |-> << >>,
     showOverlay |-> FALSE,
     videoTestActive |-> FALSE,
     videoTestColor |-> 0,
     videoTestStart |-> -MaxElapsed,
     testPassed |-> FALSE,
     serialMatched |-> FALSE]

\* model.Init: the batch of commands started with the program (spinner.Tick,
\* which only animates the spinner, is left out)
ModelInit == {CheckRootCmdRef, CollectSystemInfoCmdRef}

(***************************************************************************)
(* model.Update, one operator per case of its switch.  Each returns the    *)
(* new model value and the set of commands returned with it.               *)
(***************************************************************************)
\* the component update after the switch: the spinner in stateInit, the
\* text input in stateAskSerial
UpdateComponents(mm, msg) ==
    CASE mm.state = stateInit -> Ret(mm, {})
      [] mm.state = stateAskSerial ->
           Ret([mm EXCEPT !.textInput = textInputUpdate(@, msg)], {})
      [] OTHER -> Ret(mm, {})

\* mutant of KeyHeldPattern: the acknowledgment counts as a passed test
KeyHeldPattern_Passes(mm) ==
    Ret([mm EXCEPT !.videoTestActive = FALSE,
                   !.state = stateAskVideoOk,
                   !.showOverlay = TRUE,
                   !.testPassed = TRUE], {})

\* mutant of KeyHeldPattern: the display test is left marked active
KeyHeldPattern_StaysActive(mm) ==
    Ret([mm EXCEPT !.state = stateAskVideoOk, !.showOverlay = TRUE], {})

\* a key while the held test pattern is shown
KeyHeldPattern(mm) ==
    Ret([mm EXCEPT !.videoTestActive = FALSE,
                   !.state = stateAskVideoOk,
                   !.showOverlay = TRUE], {})

KeyQuit(mm) == Ret(mm, {QuitCmd})

\* mutant of KeyEnterShowInfo: the inventory is collected again
KeyEnterShowInfo_Recollect(mm, t) ==
    Ret([mm EXCEPT !.state = stateVideoTest,
                   !.videoTestActive = TRUE,
                   !.videoTestColor = 0,
                   !.videoTestStart = t], {StartVideoTestCmdRef, CollectSystemInfoCmdRef})

KeyEnterShowInfo(mm, t) ==
    Ret([mm EXCEPT !.state = stateVideoTest,
                   !.videoTestActive = TRUE,
                   !.videoTestColor = 0,
                   !.videoTestStart = t], {StartVideoTestCmdRef})

\* mutant of KeyEnterAskVideoOk: the outcome of the display test is not recorded
KeyEnterAskVideoOk_Unrecorded(mm) ==
    Ret([mm EXCEPT !.state = stateAskSerial, !.showOverlay = TRUE], {})

KeyEnterAskVideoOk(mm) ==
    Ret([mm EXCEPT !.state = stateAskSerial,
                   !.showOverlay = TRUE,
                   !.testPassed = TRUE], {})

KeyEnterAskSerial(mm) ==
    LET m1 == [mm EXCEPT !.userSerial = mm.textInput, !.state = stateCheckSerial]
    IN  Ret(m1, {CheckSerialNumberCmdRef(m1.userSerial, m1.sysInfo.SerialNumber)})

\* mutant of KeyEnterSerialSuccess: the phase is not advanced
KeyEnterSerialSuccess_NoAdvance(mm) ==
    LET m1 == [mm EXCEPT !.showOverlay = TRUE]
    IN  Ret(m1, {CreateLogFilesCmd(m1.sysInfo, m1.dmidecodeRaw, m1.testPassed, TRUE)})

KeyEnterSerialSuccess(mm) ==
    LET m1 == [mm EXCEPT !.state = stateCreateLogs, !.showOverlay = TRUE]
    IN  Ret(m1, {CreateLogFilesCmd(m1.sysInfo, m1.dmidecodeRaw, m1.testPassed, TRUE)})

KeyEnterSerialError(mm) ==
    Ret([mm EXCEPT !.state = stateAskSerial, !.textInput = << >>], {})

KeyEnterDone(mm) == Ret(mm, {QuitCmd})

KeyEnter(mm, msg, t) ==
    CASE mm.state = stateShowInfo -> KeyEnterShowInfo(mm, t)
      [] mm.state = stateAskVideoOk -> KeyEnterAskVideoOk(mm)
      [] mm.state = stateAskSerial -> KeyEnterAskSerial(mm)
      [] mm.state = stateSerialSuccess -> KeyEnterSerialSuccess(mm)
      [] mm.state = stateSerialError -> KeyEnterSerialError(mm)
      [] mm.state = stateDone -> KeyEnterDone(mm)
      [] OTHER -> UpdateComponents(mm, msg)

\* mutant of KeyN: the phase is not looked at
KeyN_AnyPhase(mm, msg, t) ==
    Ret([mm EXCEPT !.state = stateVideoTest,
                   !.videoTestActive = TRUE,
                   !.videoTestColor = 0,
                   !.videoTestStart = t,
                   !.testPassed = FALSE], {StartVideoTestCmdRef})

\* mutant of KeyN: the restart keeps the old start instant
KeyN_KeepsClock(mm, msg, t) ==
    IF mm.state = stateAskVideoOk
    THEN Ret([mm EXCEPT !.state = stateVideoTest,
                        !.videoTestActive = TRUE,
                        !.videoTestColor = 0,
                        !.testPassed = FALSE], {StartVideoTestCmdRef})
    ELSE UpdateComponents(mm, msg)

KeyN(mm, msg, t) ==
    IF mm.state = stateAskVideoOk
    THEN Ret([mm EXCEPT !.state = stateVideoTest,
                        !.videoTestActive = TRUE,
                        !.videoTestColor = 0,
                        !.videoTestStart = t,
                        !.testPassed = FALSE], {StartVideoTestCmdRef})
    ELSE UpdateComponents(mm, msg)

\* mutant of KeyR: 'r' during the display test skips to the next pattern
KeyR_NextPattern(mm, msg) ==
    IF mm.state = stateSerialError
    THEN Ret(mm, {RebootCmd})
    ELSE IF mm.state = stateVideoTest
         THEN Ret([mm EXCEPT !.videoTestColor = (@ + 1) % 4], {})
         ELSE UpdateComponents(mm, msg)

\* mutant of KeyR: the reboot is requested whatever the phase
KeyR_AnyPhase(mm, msg) == Ret(mm, {RebootCmd})

KeyR(mm, msg) ==
    IF mm.state = stateSerialError
    THEN Ret(mm, {RebootCmd})
    ELSE UpdateComponents(mm, msg)

KeyE(mm, msg) ==
    IF mm.state = stateSerialError
    THEN Ret(mm, {PoweroffCmd})
    ELSE UpdateComponents(mm, msg)

UpdateKeyMsg(mm, msg, t) ==
    IF mm.videoTestActive /\ mm.videoTestColor = 3
    THEN KeyHeldPattern(mm)
    ELSE CASE msg.key \in {"ctrl+c", "q"} -> KeyQuit(mm)
           [] msg.key = "enter" -> KeyEnter(mm, msg, t)
           [] msg.key = "n" -> KeyN(mm, msg, t)
           [] msg.key = "r" -> KeyR(mm, msg)
           [] msg.key = "e" -> KeyE(mm, msg)
           [] OTHER -> UpdateComponents(mm, msg)

\* mutant of UpdateWindowSizeMsg: the text typed so far is dropped
UpdateWindowSizeMsg_DropsInput(mm, msg) ==
    UpdateComponents([mm EXCEPT !.width = msg.Width,
                                !.height = msg.Height,
                                !.textInput = << >>,
                                !.viewport = [Width |-> msg.Width,
                                              Height |-> msg.Height - 6]], msg)

UpdateWindowSizeMsg(mm, msg) ==
    UpdateComponents([mm EXCEPT !.width = msg.Width,
                                !.height = msg.Height,
                                !.viewport = [Width |-> msg.Width,
                                              Height |-> msg.Height - 6]], msg)

\* mutant of UpdateErrMsg: the error is kept but the program goes on
UpdateErrMsg_NoQuit(mm, msg) == Ret([mm EXCEPT !.err = msg.error], {})

UpdateErrMsg(mm, msg) == Ret([mm EXCEPT !.err = msg.error], {QuitCmd})

UpdateSysInfoCollectedMsg(mm, msg) ==
    Ret([mm EXCEPT !.sysInfo = msg.sysInfo,
                   !.dmidecodeRaw = msg.dmidecodeRaw,
                   !.state = stateShowInfo], {})

\* mutant of UpdateStartVideoTestMsg: starting the test counts as passing it
UpdateStartVideoTestMsg_Passes(mm, t) == Ret([mm EXCEPT !.testPassed = TRUE], {TickCmd(t)})

\* mutant of UpdateStartVideoTestMsg: no timer is started
UpdateStartVideoTestMsg_NoTick(mm, t) == Ret(mm, {})

UpdateStartVideoTestMsg(mm, t) == Ret(mm, {TickCmd(t)})

\* mutant of ElapsedSeconds: the duration is not converted to seconds
ElapsedSeconds_Unconverted(mm, t) == t - mm.videoTestStart

\* elapsedSeconds := int(time.Since(m.videoTestStart).Seconds())
ElapsedSeconds(mm, t) == (t - mm.videoTestStart) \div UnitsPerSecond

\* mutant of UpdateVideoTestTimerTickMsg: the final pattern ends by itself
UpdateVideoTestTimerTickMsg_AutoAdvance(mm, t) ==
    IF mm.videoTestActive
    THEN LET elapsedSeconds == ElapsedSeconds(mm, t)
         IN  IF mm.videoTestColor = 3
             THEN Ret([mm EXCEPT !.videoTestActive = FALSE, !.state = stateAskVideoOk], {})
             ELSE IF elapsedSeconds >= 6
                  THEN Ret([mm EXCEPT !.videoTestColor = 3], {TickCmd(t)})
                  ELSE Ret([mm EXCEPT !.videoTestColor = (elapsedSeconds \div 2) % 3],
                           {TickCmd(t)})
    ELSE Ret(mm, {})

\* mutant of UpdateVideoTestTimerTickMsg: a tick of an inactive test re-arms
UpdateVideoTestTimerTickMsg_AlwaysRearm(mm, t) ==
    IF mm.videoTestActive
    THEN LET elapsedSeconds == ElapsedSeconds(mm, t)
         IN  IF mm.videoTestColor = 3
             THEN Ret(mm, {TickCmd(t)})
             ELSE IF elapsedSeconds >= 6
                  THEN Ret([mm EXCEPT !.videoTestColor = 3], {TickCmd(t)})
                  ELSE Ret([mm EXCEPT !.videoTestColor = (elapsedSeconds \div 2) % 3],
                           {TickCmd(t)})
    ELSE Ret(mm, {TickCmd(t)})

UpdateVideoTestTimerTickMsg(mm, t) ==
    IF mm.videoTestActive
    THEN LET elapsedSeconds == ElapsedSeconds(mm, t)
         IN  IF mm.videoTestColor = 3
             THEN Ret(mm, {TickCmd(t)})
             ELSE IF elapsedSeconds >= 6
                  THEN Ret([mm EXCEPT !.videoTestColor = 3], {TickCmd(t)})
                  ELSE Ret([mm EXCEPT !.videoTestColor = (elapsedSeconds \div 2) % 3],
                           {TickCmd(t)})
    ELSE Ret(mm, {})

UpdateVideoTestDoneMsg(mm) ==
    Ret([mm EXCEPT !.videoTestActive = FALSE, !.state = stateAskVideoOk], {})

\* mutant of UpdateSerialMatchedMsg: the match is not recorded
UpdateSerialMatchedMsg_Unrecorded(mm) ==
    Ret([mm EXCEPT !.state = stateSerialSuccess, !.showOverlay = TRUE], {})

UpdateSerialMatchedMsg(mm) ==
    Ret([mm EXCEPT !.state = stateSerialSuccess,
                   !.showOverlay = TRUE,
                   !.serialMatched = TRUE], {})

\* mutant of UpdateSerialMismatchMsg: a mismatch goes on to the success screen
UpdateSerialMismatchMsg_Accepts(mm, msg) ==
    Ret([mm EXCEPT !.state = stateSerialSuccess,
                   !.userSerial = msg.entered,
                   !.showOverlay = TRUE,
                   !.serialMatched = FALSE], {})

UpdateSerialMismatchMsg(mm, msg) ==
    Ret([mm EXCEPT !.state = stateSerialError,
                   !.userSerial = msg.entered,
                   !.showOverlay = TRUE,
                   !.serialMatched = FALSE], {})

\* mutant of UpdateLogCreatedMsg: the file name is not kept
UpdateLogCreatedMsg_NoPath(mm, msg) == Ret([mm EXCEPT !.state = stateDone], {})

UpdateLogCreatedMsg(mm, msg) ==
    Ret([mm EXCEPT !.state = stateDone, !.logFilePath = msg.fileName], {})

\* model.Update(msg), with the clock value t that time.Now() returns
Update(mm, msg, t) ==
    CASE msg.type = "KeyMsg" -> UpdateKeyMsg(mm, msg, t)
      [] msg.type = "WindowSizeMsg" -> UpdateWindowSizeMsg(mm, msg)
      [] msg.type = "errMsg" -> UpdateErrMsg(mm, msg)
      [] msg.type = "sysInfoCollectedMsg" -> UpdateSysInfoCollectedMsg(mm, msg)
      [] msg.type = "startVideoTestMsg" -> UpdateStartVideoTestMsg(mm, t)
      [] msg.type = "videoTestTimerTickMsg" -> UpdateVideoTestTimerTickMsg(mm, t)
      [] msg.type = "videoTestDoneMsg" -> UpdateVideoTestDoneMsg(mm)
      [] msg.type = "serialMatchedMsg" -> UpdateSerialMatchedMsg(mm)
      [] msg.type = "serialMismatchMsg" -> UpdateSerialMismatchMsg(mm, msg)
      [] msg.type = "logCreatedMsg" -> UpdateLogCreatedMsg(mm, msg)
      [] OTHER -> UpdateComponents(mm, msg)

(***************************************************************************)
(* The commands, as the messages they return.                              *)
(***************************************************************************)
\* what the probe can do: fail, or return one of ProbeOutcomes
ProbeResults ==
    {[ok |-> FALSE, sysInfo |-> initialModel.sysInfo, dmidecodeRaw |-> ""]}
    \cup {[ok |-> TRUE, sysInfo |-> p.sysInfo, dmidecodeRaw |-> p.dmidecodeRaw] :
            p \in ProbeOutcomes}

collectSystemInfoCmd(probe) ==
    IF ~probe.ok
    THEN [type |-> "errMsg", error |-> "probe failed"]
    ELSE [type |-> "sysInfoCollectedMsg", sysInfo |-> probe.sysInfo,
          dmidecodeRaw |-> probe.dmidecodeRaw]

\* createLogFilesCmd: ioOk says whether MkdirAll and WriteFile succeed
createLogFilesCmd(info, dmidecodeRaw, testPassed, serialMatched, ts, ioOk) ==
    IF ~ioOk
    THEN [type |-> "errMsg", error |-> "write failed"]
    ELSE [type |-> "logCreatedMsg", fileName |-> LogFileName(info, ts)]

(***************************************************************************)
(* The Bubble Tea event loop: one message at a time is handed to Update,   *)
(* and the commands it returns are started.                                *)
(***************************************************************************)
Without(c) == pending (-) SetToBag({c})

\* the commands cmds are started beside those of bag rest.  The first
\* tea.QuitMsg delivered ends the event loop, so a tea.Quit started while
\* one is in flight adds nothing and is not kept.
Start(rest, cmds) ==
    rest (+) SetToBag({c \in cmds : c = QuitCmd => ~BagIn(QuitCmd, rest)})

Handle(msg, rest) ==
    LET r == Update(m, msg, TimeNow)
        started == Start(rest, r.cmd)
    IN  /\ BagCardinality(started) <= MaxPending
        /\ typed' = typed + (IF Len(r.m.textInput) > Len(m.textInput) THEN 1 ELSE 0)
        /\ m' = r.m
        /\ pending' = started
        /\ lastMsg' = msg
        /\ lastCmd' = r.cmd
        /\ logCmds' = logCmds + Cardinality({c \in r.cmd : c.cmd = "createLogFilesCmd"})
        /\ logPathSets' = IF msg.type = "logCreatedMsg" THEN logPathSets + 1 ELSE logPathSets

\* mutant of MainStart: the program starts whatever the effective uid is
MainStart_NoCheck ==
    /\ pc = "main"
    /\ pc' = "running"
    /\ m' = initialModel
    /\ pending' = SetToBag({CollectSystemInfoCmdRef})
    /\ UNCHANGED <<exitCode, isRoot, lastMsg, lastCmd, logCmds, logPathSets, logFiles, typed>>
    /\ UNCHANGED nonTuiVars

\* main(): the privilege check, then tea.NewProgram(initialModel()).Run().
\* A command of Init's batch whose message is nil delivers nothing: the event
\* loop drops nil messages.
MainStart ==
    /\ pc = "main"
    /\ IF ~isRoot
       THEN /\ pc' = "exited"
            /\ exitCode' = 1
            /\ UNCHANGED <<m, pending>>
       ELSE /\ pc' = "running"
            /\ m' = initialModel
            /\ pending' = SetToBag({c \in ModelInit :
                                     c = CheckRootCmdRef => checkRootCmd(isRoot).type # "nil"})
            /\ UNCHANGED exitCode
    /\ UNCHANGED <<isRoot, lastMsg, lastCmd, logCmds, logPathSets, logFiles, typed>>
    /\ UNCHANGED nonTuiVars

KeyPress ==
    /\ pc = "running"
    /\ \E k \in Keys : Handle(KeyMsg(k), pending)
    /\ typed' <= MaxTyped
    /\ UNCHANGED <<pc, exitCode, isRoot, logFiles>>
    /\ UNCHANGED nonTuiVars

Resize ==
    /\ pc = "running"
    /\ \E s \in Sizes : Handle(WindowSizeMsg(s), pending)
    /\ UNCHANGED <<pc, exitCode, isRoot, logFiles>>
    /\ UNCHANGED nonTuiVars

RunCollectSystemInfo ==
    /\ pc = "running"
    /\ BagIn(CollectSystemInfoCmdRef, pending)
    /\ \E probe \in ProbeResults :
         Handle(collectSystemInfoCmd(probe), Without(CollectSystemInfoCmdRef))
    /\ UNCHANGED <<pc, exitCode, isRoot, logFiles>>
    /\ UNCHANGED nonTuiVars

RunStartVideoTest ==
    /\ pc = "running"
    /\ BagIn(StartVideoTestCmdRef, pending)
    /\ Handle([type |-> "startVideoTestMsg"], Without(StartVideoTestCmdRef))
    /\ UNCHANGED <<pc, exitCode, isRoot, logFiles>>
    /\ UNCHANGED nonTuiVars

\* a timer's message arrives once the timer is due
RunTick ==
    /\ pc = "running"
    /\ \E c \in BagToSet(pending) :
         /\ c.cmd = "tea.Tick"
         /\ c.due <= TimeNow
         /\ Handle([type |-> "videoTestTimerTickMsg"], Without(c))
    /\ UNCHANGED <<pc, exitCode, isRoot, logFiles>>
    /\ UNCHANGED nonTuiVars

RunCheckSerialNumber ==
    /\ pc = "running"
    /\ \E c \in BagToSet(pending) :
         /\ c.cmd = "checkSerialNumberCmd"
         /\ Handle(checkSerialNumberCmd(c.entered, c.system), Without(c))
    /\ UNCHANGED <<pc, exitCode, isRoot, logFiles>>
    /\ UNCHANGED nonTuiVars

RunCreateLogFiles ==
    /\ pc = "running"
    /\ \E c \in BagToSet(pending), ioOk \in BOOLEAN, ts \in Timestamps :
         /\ c.cmd = "createLogFilesCmd"
         /\ LET msg == createLogFilesCmd(c.info, c.dmidecodeRaw, c.testPassed,
                                         c.serialMatched, ts, ioOk)
            IN  /\ Handle(msg, Without(c))
                /\ logFiles' =
                     IF ioOk
                     THEN logFiles \cup
                            {[name |-> msg.fileName,
                              content |-> LogRecord(c.info, c.dmidecodeRaw,
                                                    c.testPassed, c.serialMatched)]}
                     ELSE logFiles
    /\ UNCHANGED <<pc, exitCode, isRoot>>
    /\ UNCHANGED nonTuiVars

\* exec.Command("reboot").Run(), then restartMsg, which Update has no case
\* for.  When the command succeeds the machine goes down and takes the
\* process with it; when it fails (ok = FALSE) the program goes on.
RunReboot ==
    /\ pc = "running"
    /\ BagIn(RebootCmd, pending)
    /\ \E ok \in BOOLEAN :
         IF ok
         THEN /\ pc' = "killed"
              /\ pending' = Without(RebootCmd)
              /\ lastMsg' = NoMsg
              /\ lastCmd' = {}
              /\ UNCHANGED <<m, logCmds, logPathSets, typed>>
         ELSE /\ Handle([type |-> "restartMsg"], Without(RebootCmd))
              /\ UNCHANGED pc
    /\ UNCHANGED <<exitCode, isRoot, logFiles>>
    /\ UNCHANGED nonTuiVars

RunPoweroff ==
    /\ pc = "running"
    /\ BagIn(PoweroffCmd, pending)
    /\ \E ok \in BOOLEAN :
         IF ok
         THEN /\ pc' = "killed"
              /\ pending' = Without(PoweroffCmd)
              /\ lastMsg' = NoMsg
              /\ lastCmd' = {}
              /\ UNCHANGED <<m, logCmds, logPathSets, typed>>
         ELSE /\ Handle([type |-> "shutdownMsg"], Without(PoweroffCmd))
              /\ UNCHANGED pc
    /\ UNCHANGED <<exitCode, isRoot, logFiles>>
    /\ UNCHANGED nonTuiVars

\* tea.QuitMsg ends the event loop: p.Run() returns nil and main returns
RunQuit ==
    /\ pc = "running"
    /\ BagIn(QuitCmd, pending)
    /\ pc' = "exited"
    /\ exitCode' = 0
    /\ pending' = Without(QuitCmd)
    /\ lastMsg' = [type |-> "QuitMsg"]
    /\ lastCmd' = {}
    /\ UNCHANGED <<isRoot, m, logCmds, logPathSets, logFiles, typed>>
    /\ UNCHANGED nonTuiVars

\* the clock advances by one unit: every instant kept is one unit older
Older(t) == IF t - 1 < -MaxElapsed THEN -MaxElapsed ELSE t - 1

Sooner(c) == IF c.cmd = "tea.Tick" /\ c.due > TimeNow THEN [c EXCEPT !.due = @ - 1] ELSE c

AdvanceClock ==
    /\ pc = "running"
    /\ m' = [m EXCEPT !.videoTestStart = Older(@)]
    /\ pending' = [c \in {Sooner(d) : d \in BagToSet(pending)} |->
                     BagCardinality([d \in {e \in BagToSet(pending) : Sooner(e) = c} |-> pending[d]])]
    /\ lastMsg' = NoMsg
    /\ lastCmd' = {}
    /\ UNCHANGED <<pc, exitCode, isRoot, logCmds, logPathSets, logFiles, typed>>
    /\ UNCHANGED nonTuiVars

\* SystemInfo{} and TestResults{}: the zero values
ZeroTestResults == [DisplayTest |-> FALSE, SerialNumberVerified |-> FALSE, UserEnteredSN |-> << >>]

ZeroSystemInfo == [SerialNumber |-> << >>, TestResults |-> ZeroTestResults]

\* a window content: the screen it shows, the text of its entry, the content
\* its callbacks captured as prevContent (a sequence of length 0 or 1) and
\* the log path its label displays
screenContent(s) == [screen |-> s, text |-> << >>, prevContent |-> << >>, logPath |-> << >>]

NoContent == screenContent("none")

\* the graphical program before its main has run
guiInitial ==
    [pc |-> "main",
     sysInfo |-> ZeroSystemInfo,
     content |-> NoContent,
     focused |-> FALSE,
     dialogShown |-> FALSE,
     onTypedKey |-> [handler |-> "none", prevContent |-> << >>],
     goroutines |-> EmptyBag,
     ui |-> "idle",
     now |-> 1,
     lastLog |-> [outcome |-> "none", path |-> << >>]]

\* the graphical program is not running
GuiIdle == gui = guiInitial

\* the verifier is not running
VerifierIdle ==
    /\ enteredSerial = << >>
    /\ systemSerial = << >>
    /\ verdict = NoMsg

Init ==
    /\ VerifierIdle
    /\ GuiIdle
    /\ pc = "main"
    /\ exitCode = -1
    /\ isRoot \in BOOLEAN
    /\ m = initialModel
    /\ pending = EmptyBag
    /\ lastMsg = NoMsg
    /\ lastCmd = {}
    /\ logCmds = 0
    /\ logPathSets = 0
    /\ logFiles = {}
    /\ typed = 0

Next ==
    \/ MainStart
    \/ KeyPress
    \/ Resize
    \/ RunCollectSystemInfo
    \/ RunStartVideoTest
    \/ RunTick
    \/ RunCheckSerialNumber
    \/ RunCreateLogFiles
    \/ RunReboot
    \/ RunPoweroff
    \/ RunQuit
    \/ AdvanceClock

Spec == Init /\ [][Next]_vars

\* The runtime delivers the message of every command it started, a timer
\* fires once it is due, and the wall clock advances; the operator and the
\* terminal owe nothing.
SpecFair ==
    /\ Spec
    /\ WF_vars(RunStartVideoTest)
    /\ WF_vars(RunTick)
    /\ WF_vars(AdvanceClock)

(***************************************************************************)
(* The identity verifier alone: checkSerialNumberCmd applied to every pair *)
(* of strings of at most MaxSerialLen characters, upper and lower case and *)
(* blanks among them.                                                      *)
(***************************************************************************)
SerialChars == {"a", "A", " "}

SerialStrings == UNION {[1..k -> SerialChars] : k \in 0..MaxSerialLen}

TuiIdle ==
    /\ pc = "main"
    /\ exitCode = -1
    /\ isRoot = TRUE
    /\ m = initialModel
    /\ pending = EmptyBag
    /\ lastMsg = NoMsg
    /\ lastCmd = {}
    /\ logCmds = 0
    /\ logPathSets = 0
    /\ logFiles = {}
    /\ typed = 0

InitVerifier ==
    /\ TuiIdle
    /\ GuiIdle
    /\ enteredSerial \in SerialStrings
    /\ systemSerial \in SerialStrings
    /\ verdict = NoMsg

Verify ==
    /\ verdict = NoMsg
    /\ verdict' = checkSerialNumberCmd(enteredSerial, systemSerial)
    /\ UNCHANGED <<enteredSerial, systemSerial, tuiVars, guiVars>>

NextVerifier == Verify

SpecVerifier == InitVerifier /\ [][NextVerifier]_vars

(***************************************************************************)
(* The end-to-end session: the machine's serial number is "SN-42", the     *)
(* operator confirms the display test and types "SN-42", and every         *)
(* collaborator succeeds.  The operator presses the key the screen asks    *)
(* for; the timers and the clock run as in Spec.                           *)
(***************************************************************************)
SN42 == <<"S", "N", "-", "4", "2">>

ScenarioProbe ==
    [ok |-> TRUE, sysInfo |-> [Inventory |-> "hw", SerialNumber |-> SN42],
     dmidecodeRaw |-> "raw42"]

\* the keys the operator of the scenario presses in the state mm
ScenarioKeys(mm) ==
    CASE mm.state = stateShowInfo -> {"enter"}
      [] mm.state = stateVideoTest /\ mm.videoTestActive /\ mm.videoTestColor = 3 ->
           Keys \cup {SN42[i] : i \in DOMAIN SN42}
      [] mm.state = stateAskVideoOk -> {"enter"}
      [] mm.state = stateAskSerial ->
           IF mm.textInput = SN42
           THEN {"enter"}
           ELSE IF Len(mm.textInput) < Len(SN42)
                   /\ mm.textInput = SubSeq(SN42, 1, Len(mm.textInput))
                THEN {SN42[Len(mm.textInput) + 1]}
                ELSE {}
      [] mm.state = stateSerialSuccess -> {"enter"}
      [] OTHER -> {}

InitScenario ==
    /\ VerifierIdle
    /\ GuiIdle
    /\ TuiIdle

ScenarioCollect ==
    /\ pc = "running"
    /\ BagIn(CollectSystemInfoCmdRef, pending)
    /\ Handle(collectSystemInfoCmd(ScenarioProbe), Without(CollectSystemInfoCmdRef))
    /\ UNCHANGED <<pc, exitCode, isRoot, logFiles>>
    /\ UNCHANGED nonTuiVars

ScenarioKey ==
    /\ pc = "running"
    /\ \E k \in ScenarioKeys(m) : Handle(KeyMsg(k), pending)
    /\ UNCHANGED <<pc, exitCode, isRoot, logFiles>>
    /\ UNCHANGED nonTuiVars

\* createLogFilesCmd with MkdirAll and WriteFile succeeding
ScenarioLogWrite ==
    /\ pc = "running"
    /\ \E c \in BagToSet(pending), ts \in Timestamps :
         /\ c.cmd = "createLogFilesCmd"
         /\ LET msg == createLogFilesCmd(c.info, c.dmidecodeRaw, c.testPassed,
                                         c.serialMatched, ts, TRUE)
            IN  /\ Handle(msg, Without(c))
                /\ logFiles' = logFiles \cup
                                 {[name |-> msg.fileName,
                                   content |-> LogRecord(c.info, c.dmidecodeRaw,
                                                         c.testPassed, c.serialMatched)]}
    /\ UNCHANGED <<pc, exitCode, isRoot>>
    /\ UNCHANGED nonTuiVars

NextScenario ==
    \/ MainStart
    \/ ScenarioCollect
    \/ ScenarioKey
    \/ RunStartVideoTest
    \/ RunTick
    \/ RunCheckSerialNumber
    \/ ScenarioLogWrite
    \/ AdvanceClock

\* the operator goes on pressing keys, commands in flight deliver their
\* messages and the clock moves
SpecScenario ==
    /\ InitScenario
    /\ [][NextScenario]_vars
    /\ WF_vars(MainStart)
    /\ WF_vars(ScenarioCollect)
    /\ WF_vars(ScenarioKey)
    /\ WF_vars(RunStartVideoTest)
    /\ WF_vars(RunTick)
    /\ WF_vars(RunCheckSerialNumber)
    /\ WF_vars(ScenarioLogWrite)
    /\ WF_vars(AdvanceClock)

(***************************************************************************)
(* The event loop over any model.Update: the variants of the terminal      *)
(* program (src/unnamed/part_000, src/unnamed/part_001) have the model,    *)
(* the commands, Init and main of src/main.go and their own Update.        *)
(***************************************************************************)
HandleBy(U(_, _, _), msg, rest) ==
    LET r == U(m, msg, TimeNow)
        started == Start(rest, r.cmd)
    IN  /\ BagCardinality(started) <= MaxPending
        /\ typed' = typed + (IF Len(r.m.textInput) > Len(m.textInput) THEN 1 ELSE 0)
        /\ m' = r.m
        /\ pending' = started
        /\ lastMsg' = msg
        /\ lastCmd' = r.cmd
        /\ logCmds' = logCmds + Cardinality({c \in r.cmd : c.cmd = "createLogFilesCmd"})
        /\ logCmds' <= MaxLogCmds
        /\ logPathSets' = IF msg.type = "logCreatedMsg" THEN logPathSets + 1 ELSE logPathSets

KeyPressBy(U(_, _, _), keys) ==
    /\ pc = "running"
    /\ \E k \in keys : HandleBy(U, KeyMsg(k), pending)
    /\ typed' <= MaxTyped
    /\ UNCHANGED <<pc, exitCode, isRoot, logFiles>>
    /\ UNCHANGED nonTuiVars

ResizeBy(U(_, _, _)) ==
    /\ pc = "running"
    /\ \E s \in Sizes : HandleBy(U, WindowSizeMsg(s), pending)
    /\ UNCHANGED <<pc, exitCode, isRoot, logFiles>>
    /\ UNCHANGED nonTuiVars

RunCollectSystemInfoBy(U(_, _, _)) ==
    /\ pc = "running"
    /\ BagIn(CollectSystemInfoCmdRef, pending)
    /\ \E probe \in ProbeResults :
         HandleBy(U, collectSystemInfoCmd(probe), Without(CollectSystemInfoCmdRef))
    /\ UNCHANGED <<pc, exitCode, isRoot, logFiles>>
    /\ UNCHANGED nonTuiVars

RunStartVideoTestBy(U(_, _, _)) ==
    /\ pc = "running"
    /\ BagIn(StartVideoTestCmdRef, pending)
    /\ HandleBy(U, [type |-> "startVideoTestMsg"], Without(StartVideoTestCmdRef))
    /\ UNCHANGED <<pc, exitCode, isRoot, logFiles>>
    /\ UNCHANGED nonTuiVars

RunTickBy(U(_, _, _)) ==
    /\ pc = "running"
    /\ \E c \in BagToSet(pending) :
         /\ c.cmd = "tea.Tick"
         /\ c.due <= TimeNow
         /\ HandleBy(U, [type |-> "videoTestTimerTickMsg"], Without(c))
    /\ UNCHANGED <<pc, exitCode, isRoot, logFiles>>
    /\ UNCHANGED nonTuiVars

RunCheckSerialNumberBy(U(_, _, _)) ==
    /\ pc = "running"
    /\ \E c \in BagToSet(pending) :
         /\ c.cmd = "checkSerialNumberCmd"
         /\ HandleBy(U, checkSerialNumberCmd(c.entered, c.system), Without(c))
    /\ UNCHANGED <<pc, exitCode, isRoot, logFiles>>
    /\ UNCHANGED nonTuiVars

RunCreateLogFilesBy(U(_, _, _), stamps) ==
    /\ pc = "running"
    /\ \E c \in BagToSet(pending), ioOk \in BOOLEAN, ts \in stamps :
         /\ c.cmd = "createLogFilesCmd"
         /\ LET msg == createLogFilesCmd(c.info, c.dmidecodeRaw, c.testPassed,
                                         c.serialMatched, ts, ioOk)
            IN  /\ HandleBy(U, msg, Without(c))
                /\ logFiles' =
                     IF ioOk
                     THEN logFiles \cup
                            {[name |-> msg.fileName,
                              content |-> LogRecord(c.info, c.dmidecodeRaw,
                                                    c.testPassed, c.serialMatched)]}
                     ELSE logFiles
    /\ UNCHANGED <<pc, exitCode, isRoot>>
    /\ UNCHANGED nonTuiVars

\* reboot (restartMsg) or poweroff (shutdownMsg): the machine goes down, or
\* the command fails and its message is handled
RunPowerBy(U(_, _, _), c, msgType) ==
    /\ pc = "running"
    /\ BagIn(c, pending)
    /\ \E ok \in BOOLEAN :
         IF ok
         THEN /\ pc' = "killed"
              /\ pending' = Without(c)
              /\ lastMsg' = NoMsg
              /\ lastCmd' = {}
              /\ UNCHANGED <<m, logCmds, logPathSets, typed>>
         ELSE /\ HandleBy(U, [type |-> msgType], Without(c))
              /\ UNCHANGED pc
    /\ UNCHANGED <<exitCode, isRoot, logFiles>>
    /\ UNCHANGED nonTuiVars

\* the clock advances by one unit, instants older than limit being kept as
\* "limit ago".  Only a tick handled while the display test is active reads
\* videoTestStart: once the test is over the instant is kept as "limit ago".
AdvanceClockTo(limit) ==
    /\ pc = "running"
    /\ m' = [m EXCEPT !.videoTestStart =
                       IF ~m.videoTestActive \/ @ - 1 < -limit THEN -limit ELSE @ - 1]
    /\ pending' = [c \in {Sooner(d) : d \in BagToSet(pending)} |->
                     BagCardinality([d \in {e \in BagToSet(pending) : Sooner(e) = c} |-> pending[d]])]
    /\ lastMsg' = NoMsg
    /\ lastCmd' = {}
    /\ UNCHANGED <<pc, exitCode, isRoot, logCmds, logPathSets, logFiles, typed>>
    /\ UNCHANGED nonTuiVars

(***************************************************************************)
(* src/unnamed/part_000.  There is no stateSerialSuccess: the constants up *)
(* to stateCheckSerial are those of src/main.go, the later ones are one    *)
(* less.  Update has no case for the held pattern, ends the display test   *)
(* by itself and issues the log command on serialMatchedMsg; its other     *)
(* cases are those of src/main.go.                                         *)
(***************************************************************************)
stateSerialError_part000 == 6
stateCreateLogs_part000 == 7
stateDone_part000 == 8

KeyEnter_part000(mm, msg, t) ==
    CASE mm.state = stateShowInfo -> KeyEnterShowInfo(mm, t)
      [] mm.state = stateAskVideoOk -> KeyEnterAskVideoOk(mm)
      [] mm.state = stateAskSerial -> KeyEnterAskSerial(mm)
      [] mm.state = stateSerialError_part000 ->
           Ret([mm EXCEPT !.state = stateAskSerial, !.textInput = << >>], {})
      [] mm.state = stateDone_part000 -> Ret(mm, {QuitCmd})
      [] OTHER -> UpdateComponents(mm, msg)

KeyR_part000(mm, msg) ==
    IF mm.state = stateSerialError_part000
    THEN Ret(mm, {RebootCmd})
    ELSE UpdateComponents(mm, msg)

KeyE_part000(mm, msg) ==
    IF mm.state = stateSerialError_part000
    THEN Ret(mm, {PoweroffCmd})
    ELSE UpdateComponents(mm, msg)

UpdateKeyMsg_part000(mm, msg, t) ==
    CASE msg.key \in {"ctrl+c", "q"} -> KeyQuit(mm)
      [] msg.key = "enter" -> KeyEnter_part000(mm, msg, t)
      [] msg.key = "n" -> KeyN(mm, msg, t)
      [] msg.key = "r" -> KeyR_part000(mm, msg)
      [] msg.key = "e" -> KeyE_part000(mm, msg)
      [] OTHER -> UpdateComponents(mm, msg)

UpdateVideoTestTimerTickMsg_part000(mm, t) ==
    IF mm.videoTestActive
    THEN LET elapsedSeconds == ElapsedSeconds(mm, t)
         IN  IF elapsedSeconds >= 8
             THEN Ret([mm EXCEPT !.videoTestActive = FALSE, !.state = stateAskVideoOk], {})
             ELSE Ret([mm EXCEPT !.videoTestColor = (elapsedSeconds \div 2) % 4],
                      {TickCmd(t)})
    ELSE Ret(mm, {})

UpdateSerialMatchedMsg_part000(mm) ==
    LET m1 == [mm EXCEPT !.state = stateCreateLogs_part000,
                         !.showOverlay = TRUE,
                         !.serialMatched = TRUE]
    IN  Ret(m1, {CreateLogFilesCmd(m1.sysInfo, m1.dmidecodeRaw, m1.testPassed, TRUE)})

UpdateSerialMismatchMsg_part000(mm, msg) ==
    Ret([mm EXCEPT !.state = stateSerialError_part000,
                   !.userSerial = msg.entered,
                   !.showOverlay = TRUE,
                   !.serialMatched = FALSE], {})

UpdateLogCreatedMsg_part000(mm, msg) ==
    Ret([mm EXCEPT !.state = stateDone_part000, !.logFilePath = msg.fileName], {})

Update_part000(mm, msg, t) ==
    CASE msg.type = "KeyMsg" -> UpdateKeyMsg_part000(mm, msg, t)
      [] msg.type = "WindowSizeMsg" -> UpdateWindowSizeMsg(mm, msg)
      [] msg.type = "errMsg" -> UpdateErrMsg(mm, msg)
      [] msg.type = "sysInfoCollectedMsg" -> UpdateSysInfoCollectedMsg(mm, msg)
      [] msg.type = "startVideoTestMsg" -> UpdateStartVideoTestMsg(mm, t)
      [] msg.type = "videoTestTimerTickMsg" -> UpdateVideoTestTimerTickMsg_part000(mm, t)
      [] msg.type = "videoTestDoneMsg" -> UpdateVideoTestDoneMsg(mm)
      [] msg.type = "serialMatchedMsg" -> UpdateSerialMatchedMsg_part000(mm)
      [] msg.type = "serialMismatchMsg" -> UpdateSerialMismatchMsg_part000(mm, msg)
      [] msg.type = "logCreatedMsg" -> UpdateLogCreatedMsg_part000(mm, msg)
      [] OTHER -> UpdateComponents(mm, msg)

KeyPress_part000 == KeyPressBy(Update_part000, Keys)

Resize_part000 == ResizeBy(Update_part000)

RunCollectSystemInfo_part000 == RunCollectSystemInfoBy(Update_part000)

RunStartVideoTest_part000 == RunStartVideoTestBy(Update_part000)

RunTick_part000 == RunTickBy(Update_part000)

RunCheckSerialNumber_part000 == RunCheckSerialNumberBy(Update_part000)

RunCreateLogFiles_part000 == RunCreateLogFilesBy(Update_part000, Timestamps)

RunReboot_part000 == RunPowerBy(Update_part000, RebootCmd, "restartMsg")

RunPoweroff_part000 == RunPowerBy(Update_part000, PoweroffCmd, "shutdownMsg")

AdvanceClock_part000 == AdvanceClockTo(MaxElapsed_part000)

Next_part000 ==
    \/ MainStart
    \/ KeyPress_part000
    \/ Resize_part000
    \/ RunCollectSystemInfo_part000
    \/ RunStartVideoTest_part000
    \/ RunTick_part000
    \/ RunCheckSerialNumber_part000
    \/ RunCreateLogFiles_part000
    \/ RunReboot_part000
    \/ RunPoweroff_part000
    \/ RunQuit
    \/ AdvanceClock_part000

Spec_part000 == Init /\ [][Next_part000]_vars

(***************************************************************************)
(* src/unnamed/part_001.  Its constants, model, commands and main are      *)
(* those of src/main.go line for line; Update has one more key, 'b' (back  *)
(* to the inventory screen), and a faster pattern sequence: one pattern a  *)
(* second, the final one from 3 s on.                                      *)
(***************************************************************************)
\* every log of part_001 is written at the same second
Timestamps_part001 == {"20260101_000000"}

\* the keys pressed in part_001: quit, the answers of the display test, back
Keys_part001 == {"q", "n", "b", "enter"}

KeyB_part001(mm, msg) ==
    IF mm.state # stateInit /\ mm.state # stateShowInfo /\ mm.state # stateAskSerial
    THEN Ret([mm EXCEPT !.state = stateShowInfo,
                        !.showOverlay = FALSE,
                        !.videoTestActive = FALSE], {})
    ELSE UpdateComponents(mm, msg)

UpdateKeyMsg_part001(mm, msg, t) ==
    IF mm.videoTestActive /\ mm.videoTestColor = 3
    THEN KeyHeldPattern(mm)
    ELSE CASE msg.key \in {"ctrl+c", "q"} -> KeyQuit(mm)
           [] msg.key = "enter" -> KeyEnter(mm, msg, t)
           [] msg.key = "n" -> KeyN(mm, msg, t)
           [] msg.key = "r" -> KeyR(mm, msg)
           [] msg.key = "e" -> KeyE(mm, msg)
           [] msg.key = "b" -> KeyB_part001(mm, msg)
           [] OTHER -> UpdateComponents(mm, msg)

UpdateVideoTestTimerTickMsg_part001(mm, t) ==
    IF mm.videoTestActive
    THEN LET elapsedSeconds == ElapsedSeconds(mm, t)
         IN  IF mm.videoTestColor = 3
             THEN Ret(mm, {TickCmd(t)})
             ELSE IF elapsedSeconds >= 3
                  THEN Ret([mm EXCEPT !.videoTestColor = 3], {TickCmd(t)})
                  ELSE Ret([mm EXCEPT !.videoTestColor = elapsedSeconds % 3],
                           {TickCmd(t)})
    ELSE Ret(mm, {})

Update_part001(mm, msg, t) ==
    CASE msg.type = "KeyMsg" -> UpdateKeyMsg_part001(mm, msg, t)
      [] msg.type = "WindowSizeMsg" -> UpdateWindowSizeMsg(mm, msg)
      [] msg.type = "errMsg" -> UpdateErrMsg(mm, msg)
      [] msg.type = "sysInfoCollectedMsg" -> UpdateSysInfoCollectedMsg(mm, msg)
      [] msg.type = "startVideoTestMsg" -> UpdateStartVideoTestMsg(mm, t)
      [] msg.type = "videoTestTimerTickMsg" -> UpdateVideoTestTimerTickMsg_part001(mm, t)
      [] msg.type = "videoTestDoneMsg" -> UpdateVideoTestDoneMsg(mm)
      [] msg.type = "serialMatchedMsg" -> UpdateSerialMatchedMsg(mm)
      [] msg.type = "serialMismatchMsg" -> UpdateSerialMismatchMsg(mm, msg)
      [] msg.type = "logCreatedMsg" -> UpdateLogCreatedMsg(mm, msg)
      [] OTHER -> UpdateComponents(mm, msg)

KeyPress_part001 == KeyPressBy(Update_part001, Keys_part001)

RunCollectSystemInfo_part001 == RunCollectSystemInfoBy(Update_part001)

RunStartVideoTest_part001 == RunStartVideoTestBy(Update_part001)

RunTick_part001 == RunTickBy(Update_part001)

RunCheckSerialNumber_part001 == RunCheckSerialNumberBy(Update_part001)

RunCreateLogFiles_part001 == RunCreateLogFilesBy(Update_part001, Timestamps_part001)

AdvanceClock_part001 == AdvanceClockTo(MaxElapsed_part001)

Next_part001 ==
    \/ MainStart
    \/ KeyPress_part001
    \/ RunCollectSystemInfo_part001
    \/ RunStartVideoTest_part001
    \/ RunTick_part001
    \/ RunCheckSerialNumber_part001
    \/ RunCreateLogFiles_part001
    \/ RunQuit
    \/ AdvanceClock_part001

Spec_part001 == Init /\ [][Next_part001]_vars

(***************************************************************************)
(* The graphical program (package main of src/main.go, lines 1-1519).  The *)
(* record gui holds its globals (sysInfo), the window (content, focused    *)
(* entry, modal dialog, canvas key handler), the goroutines it spawned,    *)
(* the position of the UI thread inside a callback that sleeps (ui), the   *)
(* wall clock in seconds (now) and the last call of createLogFile          *)
(* (lastLog: its outcome and the file it named).  The colour animation     *)
(* goroutine of runDisplayTest touches no field kept here.                 *)
(***************************************************************************)
\* the serial numbers collectSerialNumber can store: one read from the
\* system and the fallback "UNKNOWN"
GuiProbes == {<<"S">>, <<"U", "N", "K", "N", "O", "W", "N">>}

\* the characters the operator types into the serial entry
GuiRunes == {"S", "1"}

\* the keys delivered to the window
GuiKeys == {"Y", "N", "R", "Q", "Escape", "Return"} \cup GuiRunes

\* time.Now().Format("2006-01-02_15-04-05") for each second of the clock
GuiClock == <<"2026-01-01_00-00-00", "2026-01-01_00-00-01">>

\* the outcomes of the file system and of the serializer in createLogFile
GuiFaults == {"none", "mkdir", "marshal", "write"}

RECURSIVE ContentDepth(_)
ContentDepth(c) ==
    IF c.prevContent = << >> THEN 1 ELSE 1 + ContentDepth(c.prevContent[1])

\* window.SetContent: the new content is shown and nothing in it has focus
SetContent(g, c) == [g EXCEPT !.content = c, !.focused = FALSE]

\* showSplashScreen: the splash is shown and a goroutine sleeps one second
\* before it calls onComplete
showSplashScreen(g) ==
    [SetContent(g, screenContent("splash")) EXCEPT
        !.goroutines = @ (+) SetToBag({[fn |-> "onComplete", at |-> "sleep"]})]

startDiagnosticSequence(g) == showSplashScreen(g)

\* collectSystemInformation, first statement: the test results are reset
collectSystemInformation(g) ==
    [g EXCEPT !.sysInfo.TestResults = ZeroTestResults]

\* collectSerialNumber, the last collector: the serial number is stored
collectSerialNumber(g, serial) ==
    [g EXCEPT !.sysInfo.SerialNumber = serial]

\* showSystemInfo: the inventory is shown and a goroutine sleeps two seconds
\* before it starts the display test
showSystemInfo(g) ==
    [SetContent(g, screenContent("systemInfo")) EXCEPT
        !.goroutines = @ (+) SetToBag({[fn |-> "showSystemInfo", at |-> "sleep"]})]

\* runDisplayTest: the content on the screen is captured, the test screen is
\* shown and the canvas key handler is replaced
runDisplayTest(g) ==
    LET prevContent == g.content
    IN  [SetContent(g, screenContent("displayTest")) EXCEPT
            !.onTypedKey = [handler |-> "displayTest", prevContent |-> <<prevContent>>]]

\* checkSerialNumber: the content on the screen is captured by checkSN and
\* the serial screen with an empty entry is shown
checkSerialNumber(g) ==
    LET prevContent == g.content
    IN  SetContent(g, [screenContent("serial") EXCEPT !.prevContent = <<prevContent>>])

\* checkSN up to its first Sleep: the entry's text is recorded and compared;
\* both branches restore prevContent and go on to createLogFile, the
\* mismatch branch after opening a dialog
checkSN(g) ==
    LET userSN == g.content.text
        matches == userSN = g.sysInfo.SerialNumber
        g1 == [g EXCEPT !.sysInfo.TestResults.UserEnteredSN = userSN,
                        !.sysInfo.TestResults.SerialNumberVerified = matches,
                        !.dialogShown = IF matches THEN @ ELSE TRUE]
    IN  [SetContent(g1, g.content.prevContent[1]) EXCEPT !.ui = "createLogFile"]

guiLogFileName(serial, timestamp) == <<"troubadour_logs", serial, timestamp>>

\* createLogFile: the result of Mkdir is ignored; a failure of the
\* serializer or of the write is printed and the function returns, as it
\* does after a successful write
createLogFile(g, fault) ==
    LET timestamp == GuiClock[g.now]
        logFileName == guiLogFileName(g.sysInfo.SerialNumber, timestamp)
    IN  [g EXCEPT !.lastLog = [outcome |-> IF fault = "none" THEN "written" ELSE "failed",
                                   path |-> logFileName]]

\* showFinalScreen: the path on the label is built from the clock and the
\* serial number at this moment; the canvas key handler is replaced
showFinalScreen(g) ==
    LET timestamp == GuiClock[g.now]
        logFileName == guiLogFileName(g.sysInfo.SerialNumber, timestamp)
        g1 == [g EXCEPT !.onTypedKey = [handler |-> "final", prevContent |-> << >>]]
    IN  SetContent(g1, [screenContent("final") EXCEPT !.logPath = logFileName])

\* the Rescan button and the R key of the final screen
rescan(g) == startDiagnosticSequence([g EXCEPT !.sysInfo = ZeroSystemInfo])

\* window.Close: ShowAndRun returns and the process ends with its goroutines
windowClose(g) == [g EXCEPT !.pc = "closed", !.goroutines = EmptyBag]

\* the key handler runDisplayTest installed, up to its Sleep
displayTestOnTypedKey(g, key) ==
    IF key \in {"Y", "Return"}
    THEN [SetContent([g EXCEPT !.sysInfo.TestResults.DisplayTest = TRUE],
                     g.onTypedKey.prevContent[1])
            EXCEPT !.ui = "checkSerialNumber"]
    ELSE IF key = "N" THEN runDisplayTest(g)
    ELSE g

\* the key handler showFinalScreen installed
finalOnTypedKey(g, key) ==
    IF key = "R" THEN rescan(g)
    ELSE IF key \in {"Q", "Escape"} THEN windowClose(g)
    ELSE g

\* the focused entry receives the key: Return submits, a character is typed
entryTypedKey(g, key) ==
    IF key = "Return" THEN checkSN(g)
    ELSE IF key \in GuiRunes THEN [g EXCEPT !.content.text = Append(@, key)]
    ELSE g

\* a key event: it goes to the focused widget, and to the canvas handler
\* when nothing has focus
typedKey(g, key) ==
    IF g.focused THEN entryTypedKey(g, key)
    ELSE IF g.onTypedKey.handler = "displayTest" THEN displayTestOnTypedKey(g, key)
    ELSE IF g.onTypedKey.handler = "final" THEN finalOnTypedKey(g, key)
    ELSE g

\* a step of the graphical program to the state g, inside the bounds
GuiStep(g) ==
    /\ BagCardinality(g.goroutines) <= MaxGoroutines
    /\ ContentDepth(g.content) <= MaxContentDepth
    /\ Len(g.content.text) <= MaxEntryLen
    /\ gui' = g
    /\ UNCHANGED <<tuiVars, verifierVars>>

UiIdle == gui.pc = "running" /\ gui.ui = "idle"

\* main: the window is created and the sequence started
GuiMain ==
    /\ gui.pc = "main"
    /\ GuiStep(startDiagnosticSequence([gui EXCEPT !.pc = "running"]))

\* the splash goroutine wakes and enters collectSystemInformation
GuiSplashWake ==
    /\ gui.pc = "running"
    /\ LET asleep == [fn |-> "onComplete", at |-> "sleep"]
           collecting == [fn |-> "onComplete", at |-> "collect"]
       IN  /\ BagIn(asleep, gui.goroutines)
           /\ GuiStep([collectSystemInformation(gui) EXCEPT
                        !.goroutines = (@ (-) SetToBag({asleep})) (+) SetToBag({collecting})])

\* the collectors finish and onComplete goes on to showSystemInfo
GuiCollected ==
    /\ gui.pc = "running"
    /\ LET collecting == [fn |-> "onComplete", at |-> "collect"]
       IN  /\ BagIn(collecting, gui.goroutines)
           /\ \E serial \in GuiProbes :
                GuiStep(showSystemInfo(
                    [collectSerialNumber(gui, serial) EXCEPT
                        !.goroutines = @ (-) SetToBag({collecting})]))

\* the goroutine of showSystemInfo wakes and starts the display test
GuiDisplayTest ==
    /\ gui.pc = "running"
    /\ LET asleep == [fn |-> "showSystemInfo", at |-> "sleep"]
       IN  /\ BagIn(asleep, gui.goroutines)
           /\ GuiStep(runDisplayTest([gui EXCEPT !.goroutines = @ (-) SetToBag({asleep})]))

\* the operator presses a key
GuiTypedKey ==
    /\ UiIdle
    /\ \E key \in GuiKeys :
        /\ gui.focused => key \in GuiRunes \cup {"Return"}
        /\ GuiStep(typedKey(gui, key))

\* the display-test handler, after its Sleep: the serial stage starts
GuiCheckSerialNumber ==
    /\ gui.pc = "running"
    /\ gui.ui = "checkSerialNumber"
    /\ GuiStep([checkSerialNumber(gui) EXCEPT !.ui = "idle"])

\* the operator clicks into the serial entry
GuiFocusEntry ==
    /\ UiIdle
    /\ gui.content.screen = "serial"
    /\ ~gui.dialogShown
    /\ ~gui.focused
    /\ GuiStep([gui EXCEPT !.focused = TRUE])

\* the operator taps the confirm button of the serial screen
GuiTapConfirm ==
    /\ UiIdle
    /\ gui.content.screen = "serial"
    /\ ~gui.dialogShown
    /\ GuiStep(checkSN(gui))

\* checkSN, after its first Sleep: the log file is created
GuiCreateLogFile ==
    /\ gui.pc = "running"
    /\ gui.ui = "createLogFile"
    /\ \E fault \in GuiFaults :
        GuiStep([createLogFile(gui, fault) EXCEPT !.ui = "showFinalScreen"])

\* checkSN, after its second Sleep: the final screen is shown
GuiShowFinalScreen ==
    /\ gui.pc = "running"
    /\ gui.ui = "showFinalScreen"
    /\ GuiStep([showFinalScreen(gui) EXCEPT !.ui = "idle"])

\* the operator closes the dialog of the mismatch branch
GuiDismissDialog ==
    /\ UiIdle
    /\ gui.dialogShown
    /\ GuiStep([gui EXCEPT !.dialogShown = FALSE])

\* the operator taps the Rescan button of the final screen
GuiTapRescan ==
    /\ UiIdle
    /\ gui.content.screen = "final"
    /\ ~gui.dialogShown
    /\ GuiStep(rescan(gui))

\* the operator taps the Exit button of the final screen
GuiTapExit ==
    /\ UiIdle
    /\ gui.content.screen = "final"
    /\ ~gui.dialogShown
    /\ GuiStep(windowClose(gui))

\* a second of wall-clock time passes
GuiClockTick ==
    /\ gui.pc = "running"
    /\ gui.now < Len(GuiClock)
    /\ GuiStep([gui EXCEPT !.now = @ + 1])

Next_gui ==
    \/ GuiMain
    \/ GuiSplashWake
    \/ GuiCollected
    \/ GuiDisplayTest
    \/ GuiTypedKey
    \/ GuiCheckSerialNumber
    \/ GuiFocusEntry
    \/ GuiTapConfirm
    \/ GuiCreateLogFile
    \/ GuiShowFinalScreen
    \/ GuiDismissDialog
    \/ GuiTapRescan
    \/ GuiTapExit
    \/ GuiClockTick

Spec_gui == Init /\ [][Next_gui]_vars

(***************************************************************************)
(* The claims.  A step of the event loop is read off lastMsg' (the message *)
(* it handed to Update) and lastCmd' (the commands Update returned).       *)
(***************************************************************************)
IsKey(msg, k) == msg.type = "KeyMsg" /\ msg.key = k

\* the held final pattern is on the screen
HeldPattern(mm) == mm.videoTestActive /\ mm.videoTestColor = 3

\* C1: every phase/input pair of the transition table yields the listed
\* next phase and side effect.
C1_TransitionTable ==
    [][ /\ (lastMsg'.type = "sysInfoCollectedMsg" /\ m.state = stateInit)
            => (m'.state = stateShowInfo /\ m'.sysInfo = lastMsg'.sysInfo)
        /\ (IsKey(lastMsg', "enter") /\ m.state = stateShowInfo)
            => (m'.state = stateVideoTest /\ m'.videoTestColor = 0)
        /\ (lastMsg'.type = "KeyMsg" /\ HeldPattern(m))
            => m'.state = stateAskVideoOk
        /\ (IsKey(lastMsg', "enter") /\ m.state = stateAskVideoOk)
            => (m'.state = stateAskSerial /\ m'.testPassed = TRUE)
        /\ (IsKey(lastMsg', "n") /\ m.state = stateAskVideoOk)
            => (m'.state = stateVideoTest /\ m'.testPassed = FALSE)
        /\ (IsKey(lastMsg', "enter") /\ m.state = stateAskSerial)
            => (m'.state = stateCheckSerial /\ m'.userSerial = m.textInput)
        /\ lastMsg'.type = "serialMatchedMsg"
            => (m'.state = stateSerialSuccess /\ m'.serialMatched = TRUE)
        /\ lastMsg'.type = "serialMismatchMsg"
            => (m'.state = stateSerialError /\ m'.serialMatched = FALSE)
        /\ (IsKey(lastMsg', "enter") /\ m.state = stateSerialSuccess)
            => m'.state = stateCreateLogs
        /\ (IsKey(lastMsg', "enter") /\ m.state = stateSerialError)
            => m'.state = stateAskSerial
        /\ lastMsg'.type = "logCreatedMsg"
            => (m'.state = stateDone /\ m'.logFilePath # << >>
                /\ m'.logFilePath = lastMsg'.fileName) ]_vars

\* a session that went through the table to its last row
C1_Witness ==
    /\ lastMsg.type = "logCreatedMsg"
    /\ m.state = stateDone
    /\ m.testPassed
    /\ m.serialMatched
    /\ m.userSerial = <<"n">>

\* the phase/input pairs the transition table lists
Listed(mm, msg) ==
    \/ msg.type = "sysInfoCollectedMsg" /\ mm.state = stateInit
    \/ msg.type = "KeyMsg" /\ HeldPattern(mm)
    \/ IsKey(msg, "enter") /\ mm.state \in {stateShowInfo, stateAskVideoOk, stateAskSerial,
                                               stateSerialSuccess, stateSerialError}
    \/ IsKey(msg, "n") /\ mm.state = stateAskVideoOk
    \/ msg.type \in {"serialMatchedMsg", "serialMismatchMsg"} /\ mm.state = stateCheckSerial
    \/ msg.type = "logCreatedMsg" /\ mm.state = stateCreateLogs

\* C2: an input the transition table does not list for the current phase
\* leaves m.state unchanged.
C2_UnlistedInputKeepsPhase ==
    [][ ~Listed(m, lastMsg') => m'.state = m.state ]_vars

\* 'n' pressed outside AskVideoOk: it went into the text input
C2_Witness ==
    /\ IsKey(lastMsg, "n")
    /\ m.state = stateAskSerial
    /\ m.textInput = <<"n">>

\* C3: createLogFilesCmd is issued at most once, only by Enter in
\* SerialSuccess (which moves to CreateLogs), and never before a match.
C3_LogIssuedOnce ==
    /\ [](logCmds <= 1 /\ (logCmds >= 1 => m.serialMatched))
    /\ [][ logCmds' # logCmds =>
              /\ IsKey(lastMsg', "enter")
              /\ m.state = stateSerialSuccess
              /\ m'.state = stateCreateLogs ]_vars

\* the log command has been issued, after a mismatch and a retry (only the
\* retry empties a text input that has been typed into)
C3_Witness ==
    /\ logCmds = 1
    /\ m.state = stateCreateLogs
    /\ typed >= 1
    /\ m.textInput = << >>

\* C4: m.logFilePath is non-empty exactly in stateDone, and is assigned at
\* most once.
C4_LogPathIffDone ==
    /\ (m.logFilePath # << >>) <=> (m.state = stateDone)
    /\ logPathSets <= 1

C4_Witness ==
    /\ m.state = stateDone
    /\ m.logFilePath # << >>
    /\ logPathSets = 1

\* C5: right after Enter (Retry) in SerialError the phase is AskSerial and
\* the recorded entered serial m.userSerial is empty.
C5_RetryClearsUserSerial ==
    [][ (IsKey(lastMsg', "enter") /\ m.state = stateSerialError)
          => (m'.state = stateAskSerial /\ m'.userSerial = << >>) ]_vars

\* C6: checkSerialNumberCmd returns serialMatchedMsg exactly when the two
\* strings are identical, and otherwise serialMismatchMsg carrying both.
C6_VerifierExact ==
    verdict # NoMsg =>
        /\ verdict.type \in {"serialMatchedMsg", "serialMismatchMsg"}
        /\ (verdict.type = "serialMatchedMsg") <=> (enteredSerial = systemSerial)
        /\ verdict.type = "serialMismatchMsg" =>
              (verdict.entered = enteredSerial /\ verdict.system = systemSerial)

\* the pair ("", "") has been compared, and matched
C6_Witness ==
    /\ enteredSerial = << >>
    /\ systemSerial = << >>
    /\ verdict.type = "serialMatchedMsg"

\* C7: a quit key returns tea.Quit from every reachable state.
C7_QuitFromEveryState ==
    [][ (IsKey(lastMsg', "q") \/ IsKey(lastMsg', "ctrl+c")) => QuitCmd \in lastCmd' ]_vars

\* C8: in the held final pattern nothing but a key event changes the phase
\* or the pattern.
C8_HeldPatternStays ==
    [][ (m.state = stateVideoTest /\ HeldPattern(m) /\ lastMsg'.type # "KeyMsg")
          => (m'.state = stateVideoTest /\ HeldPattern(m')) ]_vars

\* a timer tick has been handled with the final pattern on the screen
C8_Witness ==
    /\ lastMsg.type = "videoTestTimerTickMsg"
    /\ m.state = stateVideoTest
    /\ HeldPattern(m)
    /\ \E c \in lastCmd : c.cmd = "tea.Tick"

\* C9: any key in the held final pattern moves to AskVideoOk and stops the
\* sequencer, leaving testPassed as it was.
C9_AnyKeyAcknowledges ==
    [][ (lastMsg'.type = "KeyMsg" /\ HeldPattern(m))
          => /\ m'.state = stateAskVideoOk
             /\ m'.videoTestActive = FALSE
             /\ m'.testPassed = m.testPassed ]_vars

\* the quit key has acknowledged the held pattern
C9_Witness ==
    /\ IsKey(lastMsg, "q")
    /\ m.state = stateAskVideoOk
    /\ m.videoTestColor = 3
    /\ ~m.videoTestActive

\* the sub-phase the sequencer's contract gives for e whole seconds elapsed
SubPhase(e) == IF e < 6 THEN (e \div 2) % 3 ELSE 3

\* C10: after a timer tick handled while the display test is active, with e
\* whole seconds elapsed since videoTestStart, videoTestColor is
\* floor(e/2) mod 3 for e < 6 and 3 from e = 6 on.
C10_SequencerContract ==
    [][ (lastMsg'.type = "videoTestTimerTickMsg" /\ m.videoTestActive)
          => m'.videoTestColor = SubPhase((TimeNow - m.videoTestStart) \div UnitsPerSecond) ]_vars

\* a tick handled 2.5 s after the start shows pattern 1
C10_Witness ==
    /\ lastMsg.type = "videoTestTimerTickMsg"
    /\ m.videoTestActive
    /\ TimeNow - m.videoTestStart = 5
    /\ m.videoTestColor = 1

\* C11: once the OS command requested by 'r' or 'e' in SerialError has been
\* run, the process handles no further event: the step after the command's
\* own message (restartMsg, shutdownMsg) hands no key and no tick to Update.
C11_PowerRequestTerminates ==
    [][ (pc = "running" /\ lastMsg.type \in {"restartMsg", "shutdownMsg"})
          => lastMsg'.type \notin {"KeyMsg", "videoTestTimerTickMsg", "WindowSizeMsg"} ]_vars

\* C12: an errMsg sets m.err and returns tea.Quit; from then on m.err stays
\* set, the phase is neither ShowInfo nor Done, m.logFilePath is empty and
\* neither collectSystemInfoCmd nor createLogFilesCmd is issued.
C12_ErrorEndsSession ==
    /\ [](m.err # "nil" => (/\ m.state \notin {stateShowInfo, stateDone}
                            /\ m.logFilePath = << >>))
    /\ [][ /\ lastMsg'.type = "errMsg"
              => (m'.err = lastMsg'.error /\ m'.err # "nil" /\ QuitCmd \in lastCmd')
           /\ m.err # "nil"
              => /\ m'.err = m.err
                 /\ \A c \in lastCmd' :
                       c.cmd \notin {"collectSystemInfoCmd", "createLogFilesCmd"}
                 /\ \A c \in BagToSet(pending') :
                       c.cmd \notin {"collectSystemInfoCmd", "createLogFilesCmd"} ]_vars

\* the log write failed and a later key was handled before the quit arrived
C12_Witness ==
    /\ m.err = "write failed"
    /\ m.state = stateCreateLogs
    /\ IsKey(lastMsg, "enter")
    /\ pc = "running"

\* C13: the exit code is 0 exactly when the process ends without an error
\* (normal completion, operator quit) and non-zero when it lacks privileges
\* or when collection or the log write failed.
C13_ExitCodes ==
    pc = "exited" => ((exitCode = 0) <=> (isRoot /\ m.err = "nil"))

\* C14: m.serialMatched implies m.userSerial = m.sysInfo.SerialNumber.
C14_MatchedMeansEqual ==
    m.serialMatched => m.userSerial = m.sysInfo.SerialNumber

\* a match after a mismatch and a retry
C14_Witness ==
    /\ m.serialMatched
    /\ m.state = stateSerialSuccess
    /\ m.userSerial = << >>
    /\ m.sysInfo.SerialNumber = << >>
    /\ typed >= 1

\* C15: m.testPassed changes only by an answer in AskVideoOk: Enter makes it
\* true, 'n' makes it false; every other step leaves it as it was.
C15_TestPassedOnlyByAnswer ==
    [][ /\ (IsKey(lastMsg', "enter") /\ m.state = stateAskVideoOk /\ ~HeldPattern(m))
            => m'.testPassed = TRUE
        /\ (IsKey(lastMsg', "n") /\ m.state = stateAskVideoOk /\ ~HeldPattern(m))
            => m'.testPassed = FALSE
        /\ ~(/\ m.state = stateAskVideoOk
             /\ ~HeldPattern(m)
             /\ (IsKey(lastMsg', "enter") \/ IsKey(lastMsg', "n")))
            => m'.testPassed = m.testPassed ]_vars

\* the operator confirmed the display test; a tick still in flight is then
\* handled and leaves the outcome alone
C15_Witness ==
    /\ lastMsg.type = "videoTestTimerTickMsg"
    /\ m.state = stateAskSerial
    /\ m.testPassed

\* C16: a tea.WindowSizeMsg changes width, height and the viewport's size
\* and nothing else, and returns no command.
C16_ResizeFrame ==
    [][ lastMsg'.type = "WindowSizeMsg"
          => /\ m' = [m EXCEPT !.width = lastMsg'.Width,
                               !.height = lastMsg'.Height,
                               !.viewport = [Width |-> lastMsg'.Width,
                                             Height |-> lastMsg'.Height - 6]]
             /\ lastCmd' = {}
             /\ pending' = pending ]_vars

\* the terminal was resized while the operator was typing the serial number
C16_Witness ==
    /\ lastMsg.type = "WindowSizeMsg"
    /\ m.state = stateAskSerial
    /\ m.textInput = <<"n">>
    /\ m.width = 100
    /\ m.viewport.Height = 24

\* C17: collectSystemInfoCmd is started once, with the program; its result is
\* stored in stateInit only, and once stored m.sysInfo and m.dmidecodeRaw
\* never change.
C17_InventoryOnce ==
    /\ [](CopiesIn(CollectSystemInfoCmdRef, pending) <= 1)
    /\ [][ /\ CollectSystemInfoCmdRef \notin lastCmd'
           /\ lastMsg'.type = "sysInfoCollectedMsg" => m.state = stateInit
           /\ (pc = "running" /\ m.state # stateInit)
                => /\ ~BagIn(CollectSystemInfoCmdRef, pending')
                   /\ m'.sysInfo = m.sysInfo
                   /\ m'.dmidecodeRaw = m.dmidecodeRaw ]_vars

\* a whole session after the snapshot with serial number "n" was stored
C17_Witness ==
    /\ m.state = stateDone
    /\ m.sysInfo.SerialNumber = <<"n">>
    /\ m.dmidecodeRaw = "raw1"

\* C18: with snapshot serial "SN-42" the session of the scenario ends in
\* stateDone, and there serialMatched and testPassed are true and exactly
\* one log write has happened, whose record contains the serial "SN-42".
C18_EndToEnd ==
    /\ <>(m.state = stateDone)
    /\ [](m.state = stateDone =>
            /\ m.serialMatched
            /\ m.testPassed
            /\ m.userSerial = SN42
            /\ logCmds = 1
            /\ Cardinality(logFiles) = 1
            /\ \A f \in logFiles :
                  /\ f.content.SerialNumber = SN42
                  /\ f.content.EnteredSerialNumber = SN42
                  /\ f.content.VideoTestPassed
                  /\ f.content.SerialNumberCheck)

\* the scenario has run to its end
C18_Witness ==
    /\ m.state = stateDone
    /\ m.sysInfo.SerialNumber = SN42
    /\ m.userSerial = SN42
    /\ typed = Len(SN42)
    /\ \E f \in logFiles : f.content.SerialNumber = SN42

\* C19: the record written has the display-test outcome, the serial-check
\* result and the entered serial number of the session: those of the model
\* when the command is issued, and those of the model once it is written.
C19_RecordMatchesSession ==
    /\ [](\A f \in logFiles :
             /\ f.content.VideoTestPassed = m.testPassed
             /\ f.content.SerialNumberCheck = m.serialMatched
             /\ f.content.EnteredSerialNumber = m.userSerial)
    /\ [][ \A c \in lastCmd' :
             c.cmd = "createLogFilesCmd" =>
                LET rec == LogRecord(c.info, c.dmidecodeRaw, c.testPassed, c.serialMatched)
                IN  /\ rec.VideoTestPassed = m'.testPassed
                    /\ rec.SerialNumberCheck = m'.serialMatched
                    /\ rec.EnteredSerialNumber = m'.userSerial ]_vars

\* a record was written for the entered serial number "n"
C19_Witness ==
    /\ \E f \in logFiles : f.content.EnteredSerialNumber = <<"n">>
    /\ m.userSerial = <<"n">>
    /\ lastMsg.type = "logCreatedMsg"

\* C20: in stateDone m.serialMatched and m.testPassed are both true.
C20_DoneMeansSuccess ==
    m.state = stateDone => (m.serialMatched /\ m.testPassed)

\* Done after a first submission that did not match
C20_Witness ==
    /\ m.state = stateDone
    /\ typed >= 1
    /\ m.userSerial = << >>
    /\ logFiles # {}

\* C28: without elevated privileges the wizard never starts: the process
\* exits from main with no command started, no message handled and the
\* model untouched.
C28_NoRootNoWizard ==
    ~isRoot => /\ pc \in {"main", "exited"}
               /\ pc = "exited" => exitCode # 0
               /\ m = initialModel
               /\ pending = EmptyBag
               /\ lastMsg = NoMsg
               /\ lastCmd = {}

\* the process has exited for lack of privileges
C28_Witness ==
    /\ ~isRoot
    /\ pc = "exited"
    /\ exitCode = 1

\* one of the three timed patterns is on the screen
TimedPattern(mm) == mm.state = stateVideoTest /\ mm.videoTestColor \in {0, 1, 2}

\* C29: while a timed pattern is shown no key changes m.state,
\* videoTestColor, videoTestStart or videoTestActive.
C29_KeysLeaveTimedPattern ==
    [][ (lastMsg'.type = "KeyMsg" /\ TimedPattern(m))
          => /\ m'.state = m.state
             /\ m'.videoTestColor = m.videoTestColor
             /\ m'.videoTestStart = m.videoTestStart
             /\ m'.videoTestActive = m.videoTestActive ]_vars

\* Enter was pressed while the second pattern was shown
C29_Witness ==
    /\ IsKey(lastMsg, "enter")
    /\ m.state = stateVideoTest
    /\ m.videoTestActive
    /\ m.videoTestColor = 1

\* C30: 'n' in AskVideoOk restarts the sequencer (active, pattern 0, started
\* now, startVideoTestCmd issued); every tick computes the pattern from the
\* current start instant, and the held pattern is shown only when 6 s have
\* passed since it.
C30_RejectRestarts ==
    /\ []((m.state = stateVideoTest /\ m.videoTestColor = 3)
             => TimeNow - m.videoTestStart >= 6 * UnitsPerSecond)
    /\ [][ /\ (IsKey(lastMsg', "n") /\ m.state = stateAskVideoOk /\ ~HeldPattern(m))
               => /\ m'.state = stateVideoTest
                  /\ m'.videoTestActive
                  /\ m'.videoTestColor = 0
                  /\ m'.videoTestStart = TimeNow
                  /\ StartVideoTestCmdRef \in lastCmd'
           /\ (lastMsg'.type = "videoTestTimerTickMsg" /\ m.videoTestActive)
               => m'.videoTestColor =
                    SubPhase(ElapsedSeconds(m', TimeNow)) ]_vars

\* the held pattern of a restarted test: the timer of the rejected run and
\* the timer of the restart are both in flight
C30_Witness ==
    /\ HeldPattern(m)
    /\ m.state = stateVideoTest
    /\ BagCardinality([c \in {d \in BagToSet(pending) : d.cmd = "tea.Tick"} |-> pending[c]]) = 2

\* C24: in part_000 the final pattern (videoTestColor = 3) is held until a
\* key event: a step that hands no key to Update keeps stateVideoTest.
C24_HeldUntilKey_part000 ==
    [][ (m.state = stateVideoTest /\ m.videoTestActive /\ m.videoTestColor = 3
         /\ lastMsg'.type # "KeyMsg")
          => m'.state = stateVideoTest ]_vars

\* C25: in part_001 createLogFilesCmd is issued at most once and
\* m.logFilePath is non-empty only in stateDone.
C25_LogOnce_part001 ==
    /\ logCmds <= 1
    /\ m.logFilePath # << >> => m.state = stateDone

\* C26: in part_001, once the phase has left stateShowInfo it never returns
\* to it, and the only moves to an earlier phase are AskVideoOk -> VideoTest
\* and SerialError -> AskSerial.
C26_LinearPass_part001 ==
    [][ /\ (m.state # stateInit /\ m.state # stateShowInfo) => m'.state # stateShowInfo
        /\ m'.state < m.state =>
              \/ m.state = stateAskVideoOk /\ m'.state = stateVideoTest
              \/ m.state = stateSerialError /\ m'.state = stateAskSerial ]_vars

\* C27: in part_001 the text-input buffer is empty whenever the phase
\* enters stateAskSerial.
C27_EmptyOnEntry_part001 ==
    [][ (m.state # stateAskSerial /\ m'.state = stateAskSerial)
          => m'.textInput = << >> ]_vars

\* the step of checkSN that calls createLogFile, and the one that calls
\* showFinalScreen
CreateLogFileStep == gui.ui = "createLogFile" /\ gui'.ui = "showFinalScreen"

ShowFinalScreenStep == gui.ui = "showFinalScreen" /\ gui'.ui = "idle"

\* C21: in the graphical program the log file is written and the final
\* screen is shown only when the entered serial equals the system serial;
\* after a mismatch the session goes on to neither.
C21_LogOnlyOnMatch_gui ==
    [][ ((CreateLogFileStep /\ gui'.lastLog.outcome = "written") \/ ShowFinalScreenStep)
            => gui.sysInfo.TestResults.UserEnteredSN = gui.sysInfo.SerialNumber ]_vars

\* C22: in the graphical program a failure to create the log directory, to
\* serialize the record or to write the file ends the session in an error;
\* the final screen that reports the logs as created is never shown after it.
C22_NoFinalAfterFailure_gui ==
    [][ ShowFinalScreenStep => gui.lastLog.outcome = "written" ]_vars

\* C23: in the graphical program at most one collectSystemInformation is in
\* progress at any time, whatever Rescan inputs the final screen receives.
C23_OneCollection_gui ==
    CopiesIn([fn |-> "onComplete", at |-> "collect"], gui.goroutines) <= 1

\* C31: under fair delivery of timer ticks and an advancing clock, every
\* entry into stateVideoTest is eventually followed by the held pattern
\* (videoTestColor = 3), unless the session has ended first.
C31_EventuallyHeld ==
    (pc = "running" /\ m.state = stateVideoTest) ~> (HeldPattern(m) \/ pc # "running")

\* the held pattern of a restarted test, the tick chain of the rejected run
\* still alive beside the new one
C31_Witness ==
    /\ pc = "running"
    /\ HeldPattern(m)
    /\ lastMsg.type = "videoTestTimerTickMsg"
    /\ BagCardinality([c \in {d \in BagToSet(pending) : d.cmd = "tea.Tick"} |-> pending[c]]) = 2

\* a step that hands 'r' or 'e' to Update
PowerKey(msg) == IsKey(msg, "r") \/ IsKey(msg, "e")

\* C32, as stated: a reboot or power-off command is issued only in response
\* to 'r' or 'e' pressed in stateSerialError; in every other phase those
\* keys issue no OS command and do not change the phase.
C32_PowerOnlyInSerialError_AsStated ==
    [][ /\ (lastCmd' \cap {RebootCmd, PoweroffCmd} # {})
            => (m.state = stateSerialError /\ PowerKey(lastMsg'))
        /\ (PowerKey(lastMsg') /\ m.state # stateSerialError)
            => (lastCmd' \cap {RebootCmd, PoweroffCmd} = {} /\ m'.state = m.state) ]_vars

\* C32, amended: a reboot or power-off command is issued only in response to
\* 'r' (reboot) or 'e' (power-off) pressed in stateSerialError; in every
\* other phase those keys issue no OS command, and they change the phase
\* only while the held final pattern is shown, which they acknowledge like
\* any other key.
C32_PowerOnlyInSerialError ==
    [][ /\ (RebootCmd \in lastCmd')
            => (m.state = stateSerialError /\ IsKey(lastMsg', "r"))
        /\ (PoweroffCmd \in lastCmd')
            => (m.state = stateSerialError /\ IsKey(lastMsg', "e"))
        /\ (PowerKey(lastMsg') /\ m.state # stateSerialError)
            => /\ lastCmd' \cap {RebootCmd, PoweroffCmd} = {}
               /\ IF HeldPattern(m) THEN m'.state = stateAskVideoOk
                                    ELSE m'.state = m.state ]_vars

\* 'r' in stateSerialError has just requested the reboot
C32_Witness ==
    /\ m.state = stateSerialError
    /\ IsKey(lastMsg, "r")
    /\ RebootCmd \in lastCmd
    /\ BagIn(RebootCmd, pending)

\* the display-test timer ticks scheduled and not yet delivered
TicksOutstanding ==
    BagCardinality([c \in {d \in BagToSet(pending) : d.cmd = "tea.Tick"} |-> pending[c]])

\* C33: at most one display-test timer tick is outstanding at any time.
C33_OneTickOutstanding == TicksOutstanding <= 1

\* C34: a timer tick delivered while the display test is not active changes
\* no field of the model and schedules no further tick.
C34_InactiveTickNoEffect ==
    [][ (lastMsg'.type = "videoTestTimerTickMsg" /\ ~m.videoTestActive)
            => (m' = m /\ lastCmd' = {}) ]_vars

\* the tick left over from an acknowledged test has been delivered in
\* stateAskVideoOk
C34_Witness ==
    /\ lastMsg.type = "videoTestTimerTickMsg"
    /\ m.state = stateAskVideoOk
    /\ ~m.videoTestActive
    /\ TicksOutstanding = 0

\* C35: in every reachable state m.videoTestActive is true if and only if
\* m.state = stateVideoTest.
C35_ActiveIffVideoTest == m.videoTestActive <=> m.state = stateVideoTest

\* the display test has been acknowledged, rejected and started again
C35_Witness ==
    /\ IsKey(lastMsg, "n")
    /\ StartVideoTestCmdRef \in lastCmd
    /\ m.state = stateVideoTest
    /\ m.videoTestActive

\* C36: in part_001 the completion message of an asynchronous operation is
\* applied only in the phase that started it: serialMatchedMsg and
\* serialMismatchMsg only in stateCheckSerial, logCreatedMsg only in
\* stateCreateLogs; delivered in another phase it changes nothing.
C36_CompletionInOwnPhase_part001 ==
    [][ /\ (lastMsg'.type \in {"serialMatchedMsg", "serialMismatchMsg"}
            /\ m.state # stateCheckSerial) => m' = m
        /\ (lastMsg'.type = "logCreatedMsg" /\ m.state # stateCreateLogs) => m' = m ]_vars

\* C37: in stateAskSerial every single-character key press is appended to
\* the text-input buffer and leaves the session running in stateAskSerial,
\* so that a serial containing q, n, r or e can be typed.
C37_EveryCharacterTyped ==
    [][ (lastMsg'.type = "KeyMsg" /\ lastMsg'.key \in Runes
         /\ m.state = stateAskSerial /\ Len(m.textInput) < CharLimit)
            => /\ m'.state = stateAskSerial
               /\ m'.textInput = Append(m.textInput, lastMsg'.key)
               /\ QuitCmd \notin lastCmd' ]_vars

\* C38: in the graphical program the log path displayed on the final screen
\* equals the path createLogFile wrote to, whatever the clock shows at the
\* write and when the final screen is built.
C38_DisplayedPathIsWritten_gui ==
    [][ (ShowFinalScreenStep /\ gui.lastLog.outcome = "written")
            => gui'.content.logPath = gui.lastLog.path ]_vars

\* C39: in the graphical program the display-test key handler acts only
\* while the display-test screen is shown: during the serial stage, with no
\* goroutine left to act, no step (a Y, Return or N key event delivered to
\* the canvas included) restarts the display test or starts a second
\* serial-check stage.
C39_HandlerOnlyOnItsScreen_gui ==
    [][ (gui.pc = "running" /\ gui.ui = "idle" /\ gui.content.screen = "serial"
         /\ gui.goroutines = EmptyBag)
            => (gui'.content.screen # "displayTest" /\ gui'.ui # "checkSerialNumber") ]_vars

====
